---- MODULE Spec2Model ----
(***************************************************************************)
(* road-tripper: the trip state kept by App, the stop mutations of         *)
(* LocationList (add, update, delete, reorder, upload) and the route       *)
(* recomputation of TripMap with its in-flight flag.                       *)
(*                                                                         *)
(* Values.  A Date is an integer count of time-of-day slots, DayUnits      *)
(* slots to a calendar day.  A stop id is the clock value it was created   *)
(* at (Date.getTime().toString() is injective on clock values).            *)
(* trip.routes undefined and trip.routes = [] are both <<>>: the code      *)
(* reads the field only through `!trip.routes || trip.routes.length === 0` *)
(* and `trip.routes?.[i]`.                                                 *)
(***************************************************************************)
EXTENDS Integers, Sequences, FiniteSets, TLC

\* ---------------------------------------------------------------- bounds
MaxStops  == 3      \* stops in a trip
MaxClock  == 3      \* clock values (ids handed out by Date.now())
MaxDate   == 3      \* latest Date value
MaxPois   == 1      \* points of interest per stop
MaxTimers == 1      \* outstanding 100 ms timers of the TripMap effect
MaxSteps  == 3      \* user operations in one run
DayUnits  == 2      \* time-of-day slots per calendar day
MaxNights == 2      \* nightsStayed of a stop found in local storage

\* ---------------------------------------------------------------- values
NoNights == -999    \* nightsStayed undefined
Unset    == 0       \* locationId undefined
NaN      == 99999   \* Number.NaN

Dates == 0..MaxDate
Ids   == 1..MaxClock

Zero   == [lat |-> 0,  lng |-> 0]
CoordA == [lat |-> 10, lng |-> 20]
CoordB == [lat |-> 30, lng |-> 40]
Equator == [lat |-> 0, lng |-> 20]    \* a place on the equator

\* what a place search hands to the card: a name and a coordinate
Places == { [name |-> "P", coordinates |-> CoordA],
            [name |-> "P", coordinates |-> CoordB],
            [name |-> "Q", coordinates |-> CoordB] }

Min(S) == CHOOSE x \in S : \A y \in S : x <= y

\* ---------------------------------------------------------------- date-fns
\* differenceInDays: full days between two dates, truncated toward zero
differenceInDays(dateLeft, dateRight) ==
  LET d == dateLeft - dateRight
  IN  IF d >= 0 THEN d \div DayUnits ELSE -((-d) \div DayUnits)

\* addDays of an Invalid Date is an Invalid Date
addDays(date, amount) == IF date = NaN THEN NaN ELSE date + amount * DayUnits

\* ---------------------------------------------------------------- state
VARIABLES
  trip,               \* App's trip state: locations, pointsOfInterest, totalDays, routes
  now,                \* the clock
  directionsService,  \* TripMap: directions service created (onLoad)
  mapInitialized,     \* TripMap: mapInitialized state
  isCalculating,      \* TripMap: isCalculatingRef
  lastCalculated,     \* TripMap: lastCalculatedLocationsRef
  mapRoutes,          \* TripMap: routes state (the polylines drawn)
  pass,               \* the suspended calculateAllRoutes invocation, if any
  timers,             \* pending setTimeout callbacks of the trip-change effect
  generation,         \* which upload (JSON.parse) made the POI objects of `trip`
  alertMessage,       \* LocationList: alertMessage state ("" is null)
  validationError,    \* LocationList: validationError state
  lastOp,             \* the operation that produced this state
  steps               \* user operations so far

vars == <<trip, now, directionsService, mapInitialized, isCalculating,
          lastCalculated, mapRoutes, pass, timers, generation, alertMessage, validationError,
          lastOp, steps>>

EmptyTrip == [locations |-> <<>>, pointsOfInterest |-> <<>>, totalDays |-> 0, routes |-> <<>>]

NoPass == [active |-> FALSE, trip |-> EmptyTrip, gen |-> 0, i |-> 0, newRoutes |-> <<>>]

NoneCalculated == [set |-> FALSE, locs |-> <<>>]

\* validationError null
NoError == [text |-> "", index |-> 0]

\* hadRoutes: the routes cache was non-empty when the operation began
\* id: the id of the stop an update was called with
Op(name) == [op |-> name, known |-> FALSE, kind |-> "", ok |-> TRUE,
             hadRoutes |-> trip.routes # <<>>, id |-> Unset]

\* ---------------------------------------------------------------- LocationList helpers
\* the reduce that computes totalDays from the arrival dates
RECURSIVE totalDaysReduce(_, _)
totalDaysReduce(locations, index) ==
  IF index >= Len(locations) THEN 0
  ELSE differenceInDays(locations[index + 1].arrivalDate, locations[index].arrivalDate)
       + totalDaysReduce(locations, index + 1)

\* the reduce started one stop late
totalDaysOf_skipFirst(locations) == totalDaysReduce(locations, 2)

totalDaysOf(locations) == totalDaysReduce(locations, 1)

\* the stamping that overwrites a locationId already set
stampPois_overwrite(location) ==
  [location EXCEPT !.pointsOfInterest =
     [k \in 1..Len(location.pointsOfInterest) |->
        [location.pointsOfInterest[k] EXCEPT !.locationId = location.id]]]

\* `if (!poi.locationId) poi.locationId = location.id` on every POI of a stop;
\* the assignment is made on the POI object itself, which the stop holds
stampPois(location) ==
  [location EXCEPT !.pointsOfInterest =
     [k \in 1..Len(location.pointsOfInterest) |->
        IF location.pointsOfInterest[k].locationId = Unset
        THEN [location.pointsOfInterest[k] EXCEPT !.locationId = location.id]
        ELSE location.pointsOfInterest[k]]]

stampAll(locations) == [k \in 1..Len(locations) |-> stampPois(locations[k])]

\* the flat list: every stop's POIs in stop order
RECURSIVE flattenFrom(_, _)
flattenFrom(locations, index) ==
  IF index > Len(locations) THEN <<>>
  ELSE locations[index].pointsOfInterest \o flattenFrom(locations, index + 1)

allPointsOfInterest(locations) == flattenFrom(locations, 1)

\* the flat list of handleLocationChange: the updated stop's POIs first,
\* then those of every stop whose id differs from the updated stop's
RECURSIVE flattenOthers(_, _, _)
flattenOthers(locations, id, index) ==
  IF index > Len(locations) THEN <<>>
  ELSE (IF locations[index].id # id THEN locations[index].pointsOfInterest ELSE <<>>)
       \o flattenOthers(locations, id, index + 1)

\* the flat list walked in stop order only
updatedFirst_stopOrder(updatedLocation, updatedLocations) ==
  allPointsOfInterest(updatedLocations)

\* allPointsOfInterest of handleLocationChange
updatedFirst(updatedLocation, updatedLocations) ==
  stampPois(updatedLocation).pointsOfInterest
    \o flattenOthers(updatedLocations, updatedLocation.id, 1)

\* the comparison without the coordinates
hasOnlyDatesChanged_noCoordinates(updatedLocations, original) ==
  \A k \in 1..Len(updatedLocations) :
     /\ updatedLocations[k].id = original[k].id
     /\ updatedLocations[k].name = original[k].name

\* hasOnlyDatesChanged: id, name and coordinates agree at every index
hasOnlyDatesChanged(updatedLocations, original) ==
  \A k \in 1..Len(updatedLocations) :
     /\ updatedLocations[k].id = original[k].id
     /\ updatedLocations[k].name = original[k].name
     /\ updatedLocations[k].coordinates.lat = original[k].coordinates.lat
     /\ updatedLocations[k].coordinates.lng = original[k].coordinates.lng

\* Array.splice(index, 1) and Array.splice(index, 0, item), 1-based
removeAt(s, k) == [j \in 1..(Len(s) - 1) |-> IF j < k THEN s[j] ELSE s[j + 1]]
\* the insertion that ignores the index and appends
insertAt_atEnd(s, k, x) == Append(s, x)

insertAt(s, k, x) ==
  [j \in 1..(Len(s) + 1) |-> IF j < k THEN s[j] ELSE IF j = k THEN x ELSE s[j - 1]]

\* ---------------------------------------------------------------- TripMap helpers
\* the stop a route holds as origin or destination, by the fields read through
\* the route; its arrivalDate is a Date while the route comes from a pass and
\* the ISO string once the route has been through JSON
endpoint(location) ==
  [id |-> location.id, name |-> location.name, coordinates |-> location.coordinates,
   arrivalDate |-> [t |-> "Date", n |-> location.arrivalDate]]

\* the coordinate test of the pair loop in calculateAllRoutes
invalidCoordinates(c) == c.lat = 0 \/ c.lng = 0 \/ c.lat = NaN \/ c.lng = NaN

pairValid(locations, k) ==
  /\ ~invalidCoordinates(locations[k].coordinates)
  /\ ~invalidCoordinates(locations[k + 1].coordinates)

hasValidLocations(locations) ==
  \E k \in 1..Len(locations) : ~invalidCoordinates(locations[k].coordinates)

\* first pair at or after k whose route is requested; Len(locations) if none
nextPair(locations, k) ==
  LET S == { j \in k..(Len(locations) - 1) : pairValid(locations, j) }
  IN  IF S = {} THEN Len(locations) ELSE Min(S)

coordinatesData(locations) ==
  [set |-> TRUE,
   locs |-> [k \in 1..Len(locations) |->
               [id |-> locations[k].id, coordinates |-> locations[k].coordinates]]]

\* have the coordinates changed against lastCalculatedLocationsRef
coordinatesChanged(locations, last) ==
  \/ Len(last.locs) # Len(locations)
  \/ \E k \in 1..Len(locations) :
        \/ locations[k].coordinates.lat # last.locs[k].coordinates.lat
        \/ locations[k].coordinates.lng # last.locs[k].coordinates.lng

shouldCalculate(t, last) ==
  IF ~last.set \/ t.routes = <<>> THEN TRUE ELSE coordinatesChanged(t.locations, last)

hasCoordinatesChanged(t, last) ==
  IF ~last.set THEN TRUE ELSE coordinatesChanged(t.locations, last)

\* what the RouteProvider's answer becomes in calculateRoute
drivingRoute(origin, destination) ==
  [origin |-> endpoint(origin), destination |-> endpoint(destination),
   drivingTime |-> "1 h", distance |-> "5 km"]

\* calculateAllRoutes of the render that saw trip t, run up to its first
\* suspension point (the first provider call) or to its end.
\* st is the TripMap state it reads and writes.
\* gen tells which upload made the POI objects t holds.
\* (first, the function without its isCalculatingRef test)
calculateAllRoutes_noFlagTest(t, gen, st, service) ==
  IF ~service THEN st
  ELSE IF Len(t.locations) < 2 THEN st
  ELSE IF ~shouldCalculate(t, st.lastCalculated) THEN st
  ELSE IF ~hasValidLocations(t.locations) THEN st
  ELSE LET j == nextPair(t.locations, 1)
       IN  IF j >= Len(t.locations)
           THEN [st EXCEPT !.lastCalculated = coordinatesData(t.locations)]
           ELSE [st EXCEPT !.isCalculating = TRUE,
                           !.pass = [active |-> TRUE, trip |-> t, gen |-> gen, i |-> j,
                                     newRoutes |-> <<>>]]

calculateAllRoutes(t, gen, st, service) ==
  IF ~service THEN st
  ELSE IF Len(t.locations) < 2 THEN st
  ELSE IF st.isCalculating THEN st
  ELSE IF ~shouldCalculate(t, st.lastCalculated) THEN st
  ELSE IF ~hasValidLocations(t.locations) THEN st
  ELSE LET j == nextPair(t.locations, 1)
       IN  IF j >= Len(t.locations)
           THEN [st EXCEPT !.lastCalculated = coordinatesData(t.locations)]
           ELSE [st EXCEPT !.isCalculating = TRUE,
                           !.pass = [active |-> TRUE, trip |-> t, gen |-> gen, i |-> j,
                                     newRoutes |-> <<>>]]

mapState == [isCalculating |-> isCalculating, lastCalculated |-> lastCalculated,
             pass |-> pass, mapRoutes |-> mapRoutes, timers |-> timers]

\* the POI objects held by the stops of a list, as <<stop id, POI id>>
poiObjects(locations) ==
  UNION { { <<locations[k].id, locations[k].pointsOfInterest[j].id>> :
              j \in 1..Len(locations[k].pointsOfInterest) } :
          k \in 1..Len(locations) }

\* an earlier trip value read after the handler's forEach wrote
\* `poi.locationId = location.id` on the POI objects of `locations`: the
\* earlier value holds the same objects, so its POIs read the written id
seenAfter(t, locations) ==
  [t EXCEPT !.locations =
     [k \in 1..Len(t.locations) |->
        [t.locations[k] EXCEPT !.pointsOfInterest =
           [j \in 1..Len(t.locations[k].pointsOfInterest) |->
              LET poi == t.locations[k].pointsOfInterest[j]
              IN  IF poi.locationId = Unset
                     /\ <<t.locations[k].id, poi.id>> \in poiObjects(locations)
                  THEN [poi EXCEPT !.locationId = t.locations[k].id]
                  ELSE poi]]]]

\* the trip values closures still hold (the suspended pass, the pending
\* timers) after a handler wrote locationId on the POI objects of `locations`
inPlace(st, locations) ==
  [st EXCEPT
     !.pass = IF st.pass.active /\ st.pass.gen = generation
              THEN [st.pass EXCEPT !.trip = seenAfter(st.pass.trip, locations)]
              ELSE st.pass,
     !.timers = [k \in 1..Len(st.timers) |->
                   IF st.timers[k].gen = generation
                   THEN [st.timers[k] EXCEPT !.trip = seenAfter(st.timers[k].trip, locations)]
                   ELSE st.timers[k]]]

\* the generation of the POI objects JSON.parse creates: one no closure holds
freshGeneration ==
  LET used == (IF pass.active THEN {pass.gen} ELSE {})
              \cup { timers[k].gen : k \in 1..Len(timers) }
  IN  Min((1..(MaxTimers + 3)) \ used)

\* the two TripMap effects that run after App's trip became t:
\* recalculate when the routes are cleared, and arm the 100 ms timer
afterTripChange(t, st) ==
  /\ LET st2 == IF mapInitialized /\ t.routes = <<>>
                THEN calculateAllRoutes(t, generation', st, directionsService) ELSE st
     IN  /\ isCalculating' = st2.isCalculating
         /\ lastCalculated' = st2.lastCalculated
         /\ pass' = st2.pass
         /\ mapRoutes' = st2.mapRoutes
  /\ IF mapInitialized
     THEN /\ Len(st.timers) < MaxTimers
          /\ timers' = Append(st.timers, [trip |-> t, gen |-> generation'])
     ELSE timers' = st.timers

\* ---------------------------------------------------------------- initial state
\* App's default trip with the one empty location its mount effect adds
emptyLocation(id, date) ==
  [id |-> id, name |-> "", coordinates |-> Zero, arrivalDate |-> date,
   pointsOfInterest |-> <<>>, nightsStayed |-> NoNights]

Init ==
  /\ now = 1
  /\ \E d \in 0..(DayUnits - 1) :
       trip = [EmptyTrip EXCEPT !.locations = <<emptyLocation(1, d)>>]
  /\ directionsService = FALSE
  /\ mapInitialized = FALSE
  /\ isCalculating = FALSE
  /\ lastCalculated = NoneCalculated
  /\ mapRoutes = <<>>
  /\ pass = NoPass
  /\ timers = <<>>
  /\ generation = 1
  /\ alertMessage = ""
  /\ validationError = NoError
  /\ lastOp = [op |-> "init", known |-> FALSE, kind |-> "", ok |-> TRUE, hadRoutes |-> FALSE,
               id |-> Unset]
  /\ steps = 0

\* App started with a trip found in local storage.  The stops are stored as
\* they were (`...loc`), so they carry the nightsStayed an earlier session
\* left on them: the difference to the next stop on every stop but the last,
\* and on the last stop nothing or the value it had before it became last.
savedLocation(id, date, nights) ==
  [id |-> id, name |-> "P", coordinates |-> CoordA, arrivalDate |-> date,
   pointsOfInterest |-> <<>>, nightsStayed |-> nights]

savedTrip(locations) ==
  [locations |-> locations, pointsOfInterest |-> <<>>, routes |-> <<>>,
   totalDays |-> totalDaysOf(locations)
                 + (IF locations[Len(locations)].nightsStayed = NoNights THEN 0
                    ELSE locations[Len(locations)].nightsStayed)]

SavedTrips ==
       { savedTrip(<<savedLocation(1, d, n)>>) :
           d \in Dates, n \in {NoNights} \cup (0..MaxNights) }
  \cup { savedTrip(<<savedLocation(1, d, differenceInDays(e, d)), savedLocation(2, e, n)>>) :
           d \in Dates, e \in Dates, n \in {NoNights} \cup (0..MaxNights) }

InitSaved ==
  /\ trip \in SavedTrips
  /\ now = Len(trip.locations) + 1
  /\ directionsService = FALSE
  /\ mapInitialized = FALSE
  /\ isCalculating = FALSE
  /\ lastCalculated = NoneCalculated
  /\ mapRoutes = <<>>
  /\ pass = NoPass
  /\ timers = <<>>
  /\ generation = 1
  /\ alertMessage = ""
  /\ validationError = NoError
  /\ lastOp = [op |-> "init", known |-> FALSE, kind |-> "", ok |-> TRUE, hadRoutes |-> FALSE,
               id |-> Unset]
  /\ steps = 0

\* App started with a saved trip of placed and unplaced stops, some of them
\* on the equator; the map then loads
mapLocation(id, coordinates) ==
  [id |-> id, name |-> "P", coordinates |-> coordinates, arrivalDate |-> id * DayUnits,
   pointsOfInterest |-> <<>>, nightsStayed |-> NoNights]

MapCoordinates == {Zero, Equator, CoordA, CoordB}

MapTrips ==
  { [locations |-> [k \in 1..n |-> mapLocation(k, c[k])], pointsOfInterest |-> <<>>,
     routes |-> <<>>, totalDays |-> n - 1] :
      c \in [1..MaxStops -> MapCoordinates], n \in 2..MaxStops }

InitMap ==
  /\ trip \in MapTrips
  /\ now = MaxClock
  /\ directionsService = FALSE
  /\ mapInitialized = FALSE
  /\ isCalculating = FALSE
  /\ lastCalculated = NoneCalculated
  /\ mapRoutes = <<>>
  /\ pass = NoPass
  /\ timers = <<>>
  /\ generation = 1
  /\ alertMessage = ""
  /\ validationError = NoError
  /\ lastOp = [op |-> "init", known |-> FALSE, kind |-> "", ok |-> TRUE, hadRoutes |-> FALSE,
               id |-> Unset]
  /\ steps = 0

\* ---------------------------------------------------------------- user operations
userStep == steps < MaxSteps /\ steps' = steps + 1

\* `clock` is what Date.now() returns at the time of the operation: the clock
\* has not gone back since the last reading, and may not have advanced
handleAddLocation(clock) ==
  /\ userStep
  /\ Len(trip.locations) < MaxStops
  /\ \E date \in IF Len(trip.locations) > 0
                  THEN {addDays(trip.locations[Len(trip.locations)].arrivalDate, 1)}
                  ELSE 0..(DayUnits - 1) :
       trip' = [trip EXCEPT !.locations = Append(trip.locations, emptyLocation(clock, date))]
  /\ now' = clock
  /\ generation' = generation
  /\ afterTripChange(trip', mapState)
  /\ lastOp' = Op("add")
  /\ UNCHANGED <<directionsService, mapInitialized, alertMessage, validationError>>

AddStop == \E clock \in now..MaxClock : handleAddLocation(clock)

\* the stops a LocationCard passes to onLocationChange: the card's stop with
\* one thing edited
cardEdits(location, clock) ==
       { [location EXCEPT !.arrivalDate = d] : d \in Dates }
  \cup { [location EXCEPT !.name = p.name, !.coordinates = p.coordinates] : p \in Places }
  \cup (IF Len(location.pointsOfInterest) < MaxPois
        THEN { [location EXCEPT !.pointsOfInterest =
                  Append(location.pointsOfInterest,
                         [id |-> clock, name |-> "", coordinates |-> Zero,
                          locationId |-> location.id])] }
        ELSE {})
  \cup { [location EXCEPT !.pointsOfInterest = removeAt(location.pointsOfInterest, k)] :
            k \in 1..Len(location.pointsOfInterest) }

stopIds(locations) == { locations[k].id : k \in 1..Len(locations) }

\* a stop that is no longer (or not yet) in the trip, with one POI of its own
staleStops ==
  { [id |-> g, name |-> "P", coordinates |-> CoordA, arrivalDate |-> 0,
     pointsOfInterest |-> <<[id |-> g, name |-> "", coordinates |-> Zero,
                             locationId |-> IF owned THEN g ELSE Unset]>>,
     nightsStayed |-> NoNights] : g \in Ids \ stopIds(trip.locations), owned \in BOOLEAN }

editKind(updatedLocation, locations) ==
  IF updatedLocation.id \notin stopIds(locations) THEN "unknown"
  ELSE IF \E k \in 1..Len(locations) :
            /\ locations[k].id = updatedLocation.id
            /\ (locations[k].coordinates # updatedLocation.coordinates
                \/ locations[k].name # updatedLocation.name)
       THEN "place"
  ELSE IF \E k \in 1..Len(locations) :
            /\ locations[k].id = updatedLocation.id
            /\ locations[k].arrivalDate # updatedLocation.arrivalDate
       THEN "date"
  ELSE "other"

handleLocationChange(updatedLocation) ==
  /\ userStep
  /\ LET updatedLocations ==
           [k \in 1..Len(trip.locations) |->
              IF trip.locations[k].id = updatedLocation.id
              THEN stampPois(updatedLocation) ELSE stampPois(trip.locations[k])]
         totalDays == totalDaysOf(updatedLocations)
         flat == updatedFirst(updatedLocation, updatedLocations)
     IN  trip' = [locations |-> updatedLocations,
                  pointsOfInterest |-> flat,
                  totalDays |-> totalDays,
                  routes |-> IF hasOnlyDatesChanged(updatedLocations, trip.locations)
                             THEN trip.routes ELSE <<>>]
  /\ generation' = generation
  /\ afterTripChange(trip', inPlace(mapState, trip'.locations))
  /\ lastOp' = [Op("update") EXCEPT !.known = updatedLocation.id \in stopIds(trip.locations),
                                    !.kind = editKind(updatedLocation, trip.locations),
                                    !.id = updatedLocation.id]
  /\ UNCHANGED <<directionsService, mapInitialized, alertMessage, validationError>>

UpdateStop ==
  \E k \in 1..Len(trip.locations), clock \in now..MaxClock :
     \E updatedLocation \in cardEdits(trip.locations[k], clock) :
        /\ handleLocationChange(updatedLocation)
        /\ now' = IF Len(updatedLocation.pointsOfInterest)
                      > Len(trip.locations[k].pointsOfInterest)
                  THEN clock ELSE now

UpdateStaleStop ==
  \E updatedLocation \in staleStops :
     handleLocationChange(updatedLocation) /\ now' = now

\* the delete that keeps the routes it found
handleDeleteLocation_keepsRoutes(locationId) ==
  /\ userStep
  /\ LET updatedLocations == stampAll(SelectSeq(trip.locations, LAMBDA loc : loc.id # locationId))
     IN  trip' = [locations |-> updatedLocations,
                  pointsOfInterest |-> allPointsOfInterest(updatedLocations),
                  totalDays |-> totalDaysOf(updatedLocations),
                  routes |-> trip.routes]
  /\ generation' = generation
  /\ afterTripChange(trip', inPlace(mapState, trip'.locations))
  /\ lastOp' = [Op("delete") EXCEPT !.known = locationId \in stopIds(trip.locations)]
  /\ UNCHANGED <<now, directionsService, mapInitialized, alertMessage, validationError>>

handleDeleteLocation(locationId) ==
  /\ userStep
  /\ LET updatedLocations == stampAll(SelectSeq(trip.locations, LAMBDA loc : loc.id # locationId))
     IN  trip' = [locations |-> updatedLocations,
                  pointsOfInterest |-> allPointsOfInterest(updatedLocations),
                  totalDays |-> totalDaysOf(updatedLocations),
                  routes |-> <<>>]
  /\ generation' = generation
  /\ afterTripChange(trip', inPlace(mapState, trip'.locations))
  /\ lastOp' = [Op("delete") EXCEPT !.known = locationId \in stopIds(trip.locations)]
  /\ UNCHANGED <<now, directionsService, mapInitialized, alertMessage, validationError>>

DeleteStop == \E locationId \in Ids : handleDeleteLocation(locationId)

\* a drop on the list: the stop at `source` goes to `destination`
handleDragEnd(source, destination) ==
  /\ userStep
  /\ LET items == stampAll(insertAt(removeAt(trip.locations, source), destination,
                                    trip.locations[source]))
     IN  trip' = [locations |-> items,
                  pointsOfInterest |-> allPointsOfInterest(items),
                  totalDays |-> totalDaysOf(items),
                  routes |-> <<>>]
  /\ generation' = generation
  /\ afterTripChange(trip', inPlace(mapState, trip'.locations))
  /\ lastOp' = Op("reorder")
  /\ UNCHANGED <<now, directionsService, mapInitialized, alertMessage, validationError>>

ReorderStops ==
  \E source \in 1..Len(trip.locations), destination \in 1..Len(trip.locations) :
     handleDragEnd(source, destination)

\* a drop outside the list: `if (!result.destination) return`
DropOutside ==
  /\ userStep
  /\ Len(trip.locations) > 0
  /\ lastOp' = Op("drop")
  /\ UNCHANGED <<trip, now, directionsService, mapInitialized, isCalculating,
                 lastCalculated, mapRoutes, pass, timers, generation,
                 alertMessage, validationError>>

\* ---------------------------------------------------------------- uploaded documents
\* A JSON scalar of an uploaded document: its type, and its content read as a
\* number (n) or as text (s).  The string "200" is [t |-> "string", n |-> 200].

JNumber(n) == [t |-> "number", n |-> n, s |-> ""]
JString(n) == [t |-> "string", n |-> n, s |-> ""]
JText(s)   == [t |-> "string", n |-> NaN, s |-> s]
JDate(n)   == [t |-> "Date", n |-> n, s |-> ""]
JMissing   == [t |-> "undefined", n |-> NaN, s |-> ""]
JNull      == [t |-> "null", n |-> NaN, s |-> ""]

NoCoordinates == [present |-> FALSE, lat |-> JMissing, lng |-> JMissing]
docCoordinates(c) == [present |-> TRUE, lat |-> JNumber(c.lat), lng |-> JNumber(c.lng)]

\* a POI that lost its coordinates in deserializeTripData
Dropped == [lat |-> NaN, lng |-> NaN]

docPoi(id, locationId) ==
  [id |-> id, name |-> "", coordinates |-> docCoordinates(CoordA), locationId |-> locationId]

\* a POI whose latitude is the string "200"
docPoiFar(id, locationId) ==
  [docPoi(id, locationId) EXCEPT
     !.coordinates = [present |-> TRUE, lat |-> JString(200), lng |-> JNumber(20)]]

docStop(id, name, coordinates, date, pois) ==
  [id |-> JString(id), name |-> JText(name), coordinates |-> coordinates,
   arrivalDate |-> JString(date), \* the ISO string of Date `date`
   pointsOfInterest |-> [isArray |-> TRUE, items |-> pois],
   nightsStayed |-> NoNights]

\* parseFloat on a string, identity on a number
parseCoordinate(v) == IF v.t = "string" THEN JNumber(v.n) ELSE v

\* isNaN(lat) || isNaN(lng) || lat < -90 || lat > 90 || lng < -180 || lng > 180
outOfRange(lat, lng) ==
  \/ lat.t = "undefined" \/ lng.t = "undefined"
  \/ lat.n = NaN \/ lng.n = NaN
  \/ lat.n < -90 \/ lat.n > 90 \/ lng.n < -180 \/ lng.n > 180

\* the normalisation that puts (0,0) where it should drop the field
normalizeCoordinates_zeroed(c) ==
  IF ~c.present THEN c
  ELSE LET lat == parseCoordinate(c.lat)
           lng == parseCoordinate(c.lng)
       IN  IF outOfRange(lat, lng) THEN docCoordinates(Zero)
           ELSE [present |-> TRUE, lat |-> lat, lng |-> lng]

normalizeCoordinates(c) ==
  IF ~c.present THEN c
  ELSE LET lat == parseCoordinate(c.lat)
           lng == parseCoordinate(c.lng)
       IN  IF outOfRange(lat, lng) THEN NoCoordinates
           ELSE [present |-> TRUE, lat |-> lat, lng |-> lng]

normalizePoi(poi) == [poi EXCEPT !.coordinates = normalizeCoordinates(poi.coordinates)]

normalizePois(pois) == [k \in 1..Len(pois) |-> normalizePoi(pois[k])]

normalizeLocation(location) ==
  [location EXCEPT
     !.arrivalDate = IF location.arrivalDate.t = "string"
                     THEN JDate(location.arrivalDate.n) ELSE location.arrivalDate,
     !.coordinates = normalizeCoordinates(location.coordinates),
     !.nightsStayed = NoNights,
     !.pointsOfInterest = IF location.pointsOfInterest.isArray
                          THEN [isArray |-> TRUE,
                                items |-> normalizePois(location.pointsOfInterest.items)]
                          ELSE location.pointsOfInterest]

\* route.origin && route.destination && route.drivingTime && route.distance
routeComplete(route) ==
  route.hasOrigin /\ route.hasDestination /\ route.drivingTime # "" /\ route.distance # ""

deserializeTripData(data) ==
  [data EXCEPT
     !.locations = IF data.locationsIsArray
                   THEN [k \in 1..Len(data.locations) |->
                           normalizeLocation(data.locations[k])]
                   ELSE data.locations,
     !.pointsOfInterest = normalizePois(data.pointsOfInterest),
     !.routes = SelectSeq(data.routes, routeComplete)]

\* the field validateTripData rejects a stop for, "" if none
locationError(location) ==
  IF location.id.t # "string" THEN "id"
  ELSE IF location.name.t # "string" THEN "name"
  ELSE IF ~location.coordinates.present THEN "coordinates"
  ELSE IF location.coordinates.lat.t # "number" THEN "coordinates.lat"
  ELSE IF location.coordinates.lng.t # "number" THEN "coordinates.lng"
  ELSE IF location.arrivalDate.t # "Date" THEN "arrivalDate"
  ELSE IF ~location.pointsOfInterest.isArray THEN "pointsOfInterest"
  ELSE ""

Valid == [isValid |-> TRUE, index |-> 0, field |-> ""]

validateTripData(data) ==
  IF data.name.t # "string" THEN [isValid |-> FALSE, index |-> 0, field |-> "name"]
  ELSE IF ~data.locationsIsArray THEN [isValid |-> FALSE, index |-> 0, field |-> "locations"]
  ELSE LET failing == { k \in 1..Len(data.locations) : locationError(data.locations[k]) # "" }
       IN  IF failing = {} THEN Valid
           ELSE [isValid |-> FALSE, index |-> Min(failing),
                 field |-> locationError(data.locations[Min(failing)])]

\* the validated document seen as a Trip
asCoordinates(c) == IF c.present THEN [lat |-> c.lat.n, lng |-> c.lng.n] ELSE Dropped

asPoi(poi) == [poi EXCEPT !.coordinates = asCoordinates(poi.coordinates)]

asPois(pois) == [k \in 1..Len(pois) |-> asPoi(pois[k])]

asLocation(location) ==
  [id |-> location.id.n, name |-> location.name.s,
   coordinates |-> asCoordinates(location.coordinates),
   arrivalDate |-> location.arrivalDate.n,
   pointsOfInterest |-> asPois(location.pointsOfInterest.items),
   nightsStayed |-> location.nightsStayed]

asRoute(route) ==
  [origin |-> route.origin, destination |-> route.destination,
   drivingTime |-> route.drivingTime, distance |-> route.distance]

asTrip(data) ==
  [locations |-> [k \in 1..Len(data.locations) |-> asLocation(data.locations[k])],
   pointsOfInterest |-> asPois(data.pointsOfInterest),
   totalDays |-> data.totalDays,
   routes |-> [k \in 1..Len(data.routes) |-> asRoute(data.routes[k])]]

\* the files a user uploads
stopP == docStop(1, "P", docCoordinates(CoordA), 0, <<>>)
stopQ == docStop(2, "Q", [present |-> TRUE, lat |-> JString(30), lng |-> JNumber(40)], 3,
                 <<docPoi(3, Unset)>>)
\* stop Q in a file where its POI names stop P as its location
stopQofP == docStop(2, "Q", [present |-> TRUE, lat |-> JString(30), lng |-> JNumber(40)], 3,
                    <<docPoiFar(3, 1)>>)
stopFar == docStop(2, "Q", [present |-> TRUE, lat |-> JString(200), lng |-> JString(10)], 2, <<>>)
stopNowhere == docStop(3, "Q", NoCoordinates, 2, <<>>)
stopTimestamp == [docStop(3, "Q", docCoordinates(CoordB), 2, <<>>) EXCEPT !.arrivalDate = JNumber(2)]

\* Date.prototype.toJSON on the arrivalDate of a route's stop
serializeEndpoint(e) == [e EXCEPT !.arrivalDate = [t |-> "string", n |-> e.arrivalDate.n]]

docRoute(origin, destination, distance) ==
  [hasOrigin |-> TRUE, hasDestination |-> TRUE,
   origin |-> serializeEndpoint(endpoint(asLocation(normalizeLocation(origin)))),
   destination |-> serializeEndpoint(endpoint(asLocation(normalizeLocation(destination)))),
   drivingTime |-> "1 h", distance |-> distance]

document(locations, pois, routes, totalDays) ==
  [name |-> JText("My Road Trip"), locationsIsArray |-> TRUE, locations |-> locations,
   pointsOfInterest |-> pois, routes |-> routes, totalDays |-> totalDays]

Documents ==
  { document(<<stopP>>, <<>>, <<>>, 0),
    document(<<stopP, stopQ>>, <<docPoi(3, 2)>>, <<docRoute(stopP, stopQ, "5 km")>>, 1),
    document(<<stopP, stopQ>>, <<docPoiFar(3, Unset)>>, <<docRoute(stopP, stopQ, "")>>, 1),
    document(<<stopQofP, stopP>>, <<docPoi(1, 3)>>,
             <<docRoute(stopP, stopQ, "5 km"), docRoute(stopQ, stopP, "5 km")>>, 4),
    document(<<stopP, stopFar>>, <<>>, <<>>, 1),
    document(<<stopNowhere, stopFar>>, <<>>, <<>>, 0),
    document(<<stopP, stopTimestamp>>, <<>>, <<>>, 1),
    [document(<<stopP>>, <<>>, <<>>, 0) EXCEPT !.name = JNumber(1)] }

\* JSON.stringify(trip): Dates become ISO strings at every depth, a deleted
\* coordinates property is absent
serializeCoordinates(c) == IF c = Dropped THEN NoCoordinates ELSE docCoordinates(c)

serializePois(pois) ==
  [k \in 1..Len(pois) |-> [pois[k] EXCEPT !.coordinates = serializeCoordinates(pois[k].coordinates)]]

serializeLocation(location) ==
  [id |-> JString(location.id), name |-> JText(location.name),
   coordinates |-> serializeCoordinates(location.coordinates),
   \* Date.prototype.toJSON gives null for an Invalid Date
   arrivalDate |-> IF location.arrivalDate = NaN THEN JNull
                   ELSE JString(location.arrivalDate),
   pointsOfInterest |-> [isArray |-> TRUE, items |-> serializePois(location.pointsOfInterest)],
   nightsStayed |-> location.nightsStayed]

serializeRoute(route) ==
  [hasOrigin |-> TRUE, hasDestination |-> TRUE,
   origin |-> serializeEndpoint(route.origin),
   destination |-> serializeEndpoint(route.destination),
   drivingTime |-> route.drivingTime, distance |-> route.distance]

serialize(t) ==
  document([k \in 1..Len(t.locations) |-> serializeLocation(t.locations[k])],
           serializePois(t.pointsOfInterest),
           [k \in 1..Len(t.routes) |-> serializeRoute(t.routes[k])],
           t.totalDays)

\* the file handleDownloadTrip writes
handleDownloadTrip == [json |-> "object", from |-> "download", data |-> serialize(trip)]

\* the text of an uploaded file: JSON.parse throws on "garbage", returns null
\* for "null" (deserializeTripData then throws on tripData.locations) and
\* returns the document for "object"
Files ==
       { [json |-> "object", from |-> "disk", data |-> d] : d \in Documents }
  \cup { [json |-> j, from |-> "disk", data |-> document(<<>>, <<>>, <<>>, 0)] :
            j \in {"garbage", "null"} }

\* files that are not trips the app wrote: `locations` is not an array, a
\* stop's arrivalDate is a string that is not a date, a stop's id is a number
stopSoon == [docStop(3, "Q", docCoordinates(CoordB), 2, <<>>) EXCEPT !.arrivalDate = JText("soon")]
stopNumbered == [docStop(3, "Q", docCoordinates(CoordB), 2, <<>>) EXCEPT !.id = JNumber(3)]

MalformedFiles ==
  { [json |-> "object", from |-> "disk", data |-> d] :
      d \in { [document(<<>>, <<>>, <<>>, 0) EXCEPT !.locationsIsArray = FALSE],
              document(<<stopP, stopSoon>>, <<>>, <<>>, 1),
              document(<<stopP, stopNumbered, stopFar>>, <<>>, <<>>, 1) } }

\* validationResult.errorMessage: the sentence names the field and, for a
\* stop, its 0-based index
errorMessage(validationResult) ==
  [text |-> validationResult.field,
   index |-> IF validationResult.index > 0 THEN validationResult.index - 1 ELSE 0]

ParseAlert == "Error parsing the file. Please make sure it's a valid JSON file."
InvalidAlert == "Invalid trip data format. Please upload a valid trip file."

\* the failure path that records nothing
recordError_dropped(message, detail) ==
  UNCHANGED <<alertMessage, validationError>>

\* setAlertMessage(message); setValidationError(detail)
recordError(message, detail) ==
  alertMessage' = message /\ validationError' = detail

\* FileReader.onload of handleFileUpload
handleFileUpload(content) ==
  /\ userStep
  /\ IF content.json # "object"
     THEN /\ recordError(ParseAlert,
                         [text |-> IF content.json = "null" THEN "TypeError" ELSE "SyntaxError",
                          index |-> 0])
          /\ lastOp' = [Op("upload") EXCEPT !.ok = FALSE, !.kind = content.from]
          /\ UNCHANGED <<trip, isCalculating, lastCalculated, mapRoutes, pass, timers,
                         generation>>
     ELSE LET uploadedTrip == deserializeTripData(content.data)
              validationResult == validateTripData(uploadedTrip)
          IN  IF validationResult.isValid
              THEN /\ trip' = asTrip(uploadedTrip)
                   /\ generation' = freshGeneration
                   /\ afterTripChange(trip', mapState)
                   /\ lastOp' = [Op("upload") EXCEPT !.ok = TRUE, !.kind = content.from]
                   /\ UNCHANGED <<alertMessage, validationError>>
              ELSE /\ recordError(InvalidAlert, errorMessage(validationResult))
                   /\ lastOp' = [Op("upload") EXCEPT !.ok = FALSE, !.kind = content.from]
                   /\ UNCHANGED <<trip, isCalculating, lastCalculated, mapRoutes, pass,
                                  timers, generation>>
  /\ UNCHANGED <<now, directionsService, mapInitialized>>

UploadTrip == \E content \in Files : handleFileUpload(content)

UploadMalformed == \E content \in MalformedFiles : handleFileUpload(content)

\* the trip is downloaded and the downloaded file is uploaded
UploadDownloaded == handleFileUpload(handleDownloadTrip)

\* the alert is dismissed
handleCloseAlert ==
  /\ alertMessage # ""
  /\ alertMessage' = ""
  /\ lastOp' = Op("closeAlert")
  /\ UNCHANGED <<trip, now, directionsService, mapInitialized, isCalculating,
                 lastCalculated, mapRoutes, pass, timers, generation, validationError, steps>>

\* ---------------------------------------------------------------- TripMap
\* onLoad: the services are created
onLoad ==
  /\ ~directionsService
  /\ directionsService' = TRUE
  /\ lastOp' = Op("load")
  /\ UNCHANGED <<trip, now, mapInitialized, isCalculating, lastCalculated,
                 mapRoutes, pass, timers, generation, steps,
                 alertMessage, validationError>>

\* onLoad's 100 ms timer: mapInitialized becomes true and both effects run
\* for the current trip
mapInitTimer ==
  /\ directionsService /\ ~mapInitialized
  /\ mapInitialized' = TRUE
  /\ LET st2 == IF trip.routes = <<>>
                THEN calculateAllRoutes(trip, generation, mapState, directionsService)
                ELSE mapState
     IN  /\ isCalculating' = st2.isCalculating
         /\ lastCalculated' = st2.lastCalculated
         /\ pass' = st2.pass
         /\ mapRoutes' = st2.mapRoutes
  /\ timers' = Append(timers, [trip |-> trip, gen |-> generation])
  /\ lastOp' = Op("mapInit")
  /\ UNCHANGED <<trip, now, directionsService, generation, steps, alertMessage, validationError>>

\* the 100 ms timer armed by the trip-change effect of the render that saw
\* trip t
tripChangeTimer ==
  /\ timers # <<>>
  /\ LET t == Head(timers).trip
     IN  IF hasCoordinatesChanged(t, lastCalculated)
         THEN LET st2 == calculateAllRoutes(t, Head(timers).gen, mapState, directionsService)
              IN  /\ isCalculating' = st2.isCalculating
                  /\ pass' = st2.pass
                  /\ mapRoutes' = st2.mapRoutes
                  /\ lastCalculated' = coordinatesData(t.locations)
         ELSE UNCHANGED <<isCalculating, pass, mapRoutes, lastCalculated>>
  /\ timers' = Tail(timers)
  /\ lastOp' = Op("timer")
  /\ UNCHANGED <<trip, now, directionsService, mapInitialized, generation, steps, alertMessage, validationError>>

\* recalculateRoutes without the reset of lastCalculatedLocationsRef
recalculateRoutes_noReset ==
  /\ userStep
  /\ LET st2 == calculateAllRoutes(trip, generation, mapState, directionsService)
     IN  /\ isCalculating' = st2.isCalculating
         /\ lastCalculated' = st2.lastCalculated
         /\ pass' = st2.pass
         /\ mapRoutes' = st2.mapRoutes
  /\ lastOp' = [Op("recalculate") EXCEPT
                  !.kind = IF lastCalculated = coordinatesData(trip.locations)
                           THEN "identical" ELSE "changed"]
  /\ UNCHANGED <<trip, now, directionsService, mapInitialized, timers, generation,
                 alertMessage, validationError>>

\* the control exposed through the component's ref: forget the last computed
\* sequence, then call calculateAllRoutes of the current render
\* kind: whether the stop coordinate sequence was the last computed one
recalculateRoutes ==
  /\ userStep
  /\ LET st2 == calculateAllRoutes(trip, generation,
                                   [mapState EXCEPT !.lastCalculated = NoneCalculated],
                                   directionsService)
     IN  /\ isCalculating' = st2.isCalculating
         /\ lastCalculated' = st2.lastCalculated
         /\ pass' = st2.pass
         /\ mapRoutes' = st2.mapRoutes
  /\ lastOp' = [Op("recalculate") EXCEPT
                  !.kind = IF lastCalculated = coordinatesData(trip.locations)
                           THEN "identical" ELSE "changed"]
  /\ UNCHANGED <<trip, now, directionsService, mapInitialized, timers, generation,
                 alertMessage, validationError>>

\* a pass end that writes its (empty) result to the map without the
\* newRoutes.length > 0 test
providerAnswers_blanksOnFailure(ok) ==
  /\ pass.active
  /\ LET locations == pass.trip.locations
         newRoutes == IF ok
                      THEN Append(pass.newRoutes,
                                  drivingRoute(locations[pass.i], locations[pass.i + 1]))
                      ELSE pass.newRoutes
         j == nextPair(locations, pass.i + 1)
     IN  IF j < Len(locations)
         THEN /\ pass' = [pass EXCEPT !.i = j, !.newRoutes = newRoutes]
              /\ lastOp' = [Op("answer") EXCEPT !.ok = ok]
              /\ UNCHANGED <<trip, isCalculating, lastCalculated, mapRoutes, timers,
                             generation>>
         ELSE /\ lastOp' = [Op("passEnd") EXCEPT !.ok = (newRoutes # <<>>)]
              /\ IF newRoutes # <<>>
                 THEN                       /\ trip' = [pass.trip EXCEPT !.routes = newRoutes]
                      /\ generation' = pass.gen
                      /\ afterTripChange(trip',
                            [isCalculating |-> FALSE,
                             lastCalculated |-> coordinatesData(locations),
                             pass |-> NoPass,
                             mapRoutes |-> newRoutes,
                             timers |-> timers])
                 ELSE /\ isCalculating' = FALSE
                      /\ lastCalculated' = coordinatesData(locations)
                      /\ pass' = NoPass
                      /\ mapRoutes' = <<>>
                      /\ UNCHANGED <<trip, timers, generation>>
  /\ UNCHANGED <<now, directionsService, mapInitialized, steps, alertMessage, validationError>>

\* the RouteProvider answers the call the pass is suspended on; the pass runs
\* on to its next provider call or to its end
providerAnswers(ok) ==
  /\ pass.active
  /\ LET locations == pass.trip.locations
         newRoutes == IF ok
                      THEN Append(pass.newRoutes,
                                  drivingRoute(locations[pass.i], locations[pass.i + 1]))
                      ELSE pass.newRoutes
         j == nextPair(locations, pass.i + 1)
     IN  IF j < Len(locations)
         THEN /\ pass' = [pass EXCEPT !.i = j, !.newRoutes = newRoutes]
              /\ lastOp' = [Op("answer") EXCEPT !.ok = ok]
              /\ UNCHANGED <<trip, isCalculating, lastCalculated, mapRoutes, timers,
                             generation>>
         ELSE /\ lastOp' = [Op("passEnd") EXCEPT !.ok = (newRoutes # <<>>)]
              /\ IF newRoutes # <<>>
                 THEN \* setRoutes, then handleRoutesUpdate of the render the
                      \* pass started in: {...trip, routes: newRoutes}
                      /\ trip' = [pass.trip EXCEPT !.routes = newRoutes]
                      /\ generation' = pass.gen
                      /\ afterTripChange(trip',
                            [isCalculating |-> FALSE,
                             lastCalculated |-> coordinatesData(locations),
                             pass |-> NoPass,
                             mapRoutes |-> newRoutes,
                             timers |-> timers])
                 ELSE /\ isCalculating' = FALSE
                      /\ lastCalculated' = coordinatesData(locations)
                      /\ pass' = NoPass
                      /\ UNCHANGED <<trip, mapRoutes, timers, generation>>
  /\ UNCHANGED <<now, directionsService, mapInitialized, steps, alertMessage, validationError>>

ProviderAnswer == \E ok \in BOOLEAN : providerAnswers(ok)

\* ---------------------------------------------------------------- properties
\* the sum of the day differences of consecutive stops
RECURSIVE SumOfDifferences(_, _)
SumOfDifferences(locations, n) ==
  IF n < 1 THEN 0
  ELSE SumOfDifferences(locations, n - 1)
       + differenceInDays(locations[n + 1].arrivalDate, locations[n].arrivalDate)

ConsecutiveDays(locations) == SumOfDifferences(locations, Len(locations) - 1)

PoiIds(pois) == { pois[k].id : k \in 1..Len(pois) }

StopPoiIds(locations) ==
  UNION { PoiIds(locations[k].pointsOfInterest) : k \in 1..Len(locations) }

SameStops(a, b) ==
  /\ Len(a) = Len(b)
  /\ \A k \in 1..Len(a) :
        a[k].id = b[k].id /\ a[k].name = b[k].name /\ a[k].coordinates = b[k].coordinates

\* C1: a trip produced by UpdateStop, DeleteStop or ReorderStops has totalDays
\* equal to the sum of the day differences between the consecutive stops of
\* its own stop list, which is 0 for fewer than two stops.
C1_TotalDaysRecomputed ==
  lastOp.op \in {"update", "delete", "reorder"}
    => /\ trip.totalDays = ConsecutiveDays(trip.locations)
       /\ Len(trip.locations) < 2 => trip.totalDays = 0

\* a known stop was deleted, two stops remain, and they are a day or more apart
C1_Witness ==
  /\ lastOp.op = "delete" /\ lastOp.known
  /\ Len(trip.locations) = 2
  /\ trip.totalDays # 0

\* C2: a trip produced by AddStop has totalDays equal to the sum of the day
\* differences between the consecutive stops of the new stop list.
C2_AddRecomputesTotalDays ==
  lastOp.op = "add" => trip.totalDays = ConsecutiveDays(trip.locations)

\* C3: after a mutation every stop but the last carries nightsStayed and the
\* last stop carries none.
C3_NightsOnAllButLast ==
  lastOp.op \in {"add", "update", "delete", "reorder"}
    => \A k \in 1..Len(trip.locations) :
          (trip.locations[k].nightsStayed = NoNights) <=> (k = Len(trip.locations))

\* C4: with a non-empty routes cache, an UpdateStop that leaves id, name and
\* coordinates as they were at every index keeps the routes, and an UpdateStop
\* that changes a stop's coordinates empties them.
C4_RouteRetention ==
  [][ (lastOp'.op = "update" /\ trip.routes # <<>>)
        => /\ SameStops(trip.locations, trip'.locations) => trip'.routes = trip.routes
           /\ (\E k \in 1..Len(trip.locations) :
                 trip'.locations[k].coordinates # trip.locations[k].coordinates)
              => trip'.routes = <<>> ]_vars

\* an arrival date was edited and the routes are still there
C4_Witness ==
  lastOp.op = "update" /\ lastOp.kind = "date" /\ trip.routes # <<>>

C6_RoutesWithinPairs ==
  Len(trip.routes) <= (IF Len(trip.locations) > 0 THEN Len(trip.locations) - 1 ELSE 0)

\* C7: the routes are empty, or there is one per consecutive stop pair and
\* route i runs from stop i to stop i+1.
C7_RoutesMatchPairs ==
  \/ trip.routes = <<>>
  \/ /\ Len(trip.routes) = Len(trip.locations) - 1
     /\ \A k \in 1..Len(trip.routes) :
           /\ trip.routes[k].origin.id = trip.locations[k].id
           /\ trip.routes[k].destination.id = trip.locations[k + 1].id

\* C8: every POI of the flat list names a stop of the trip as its locationId,
\* and that stop holds a POI with the same id.
C8_FlatBackReference ==
  \A k \in 1..Len(trip.pointsOfInterest) :
     \E j \in 1..Len(trip.locations) :
        /\ trip.locations[j].id = trip.pointsOfInterest[k].locationId
        /\ trip.pointsOfInterest[k].id \in PoiIds(trip.locations[j].pointsOfInterest)

\* C9: the flat list holds exactly the POIs held by the stops.
C9_FlatIsDerived ==
  PoiIds(trip.pointsOfInterest) = StopPoiIds(trip.locations)

\* C10: UpdateStop with a stop whose id is not in the trip changes nothing of
\* the trip.
C10_UnknownUpdateIsNoOp ==
  [][ (lastOp'.op = "update" /\ ~lastOp'.known) => trip' = trip ]_vars

\* C11: DeleteStop with an id that matches no stop changes nothing of the
\* trip: locations, pointsOfInterest, totalDays and routes stay as they were.
C11_UnknownDeleteIsNoOp ==
  [][ (lastOp'.op = "delete" /\ ~lastOp'.known)
        => /\ trip'.locations = trip.locations
           /\ trip'.pointsOfInterest = trip.pointsOfInterest
           /\ trip'.totalDays = trip.totalDays
           /\ trip'.routes = trip.routes ]_vars

\* C12: a mutation leaves the previous Trip value as it was.  The previous
\* value is still held by the route pass that was started with it; read
\* through the pass after the mutation, its stops and their POIs (locationId
\* included) are what they were before the mutation.
C12_PreviousTripUntouched ==
  [][ (/\ lastOp'.op \in {"add", "update", "delete", "reorder", "upload"}
       /\ pass.active /\ pass.trip = trip /\ pass.gen = generation)
        => pass'.trip = pass.trip ]_vars

\* C13: an upload that fails parsing or validation leaves the trip as it was
\* and issues no onTripChange (no pass starts, no timer is armed), and it
\* records an alert message and a detail; an upload replaces the trip only
\* when validation succeeded.
C13_FailedUploadLeavesTrip ==
  [][ lastOp'.op = "upload"
        => /\ ~lastOp'.ok => /\ trip' = trip
                             /\ pass' = pass /\ timers' = timers
                             /\ isCalculating' = isCalculating
                             /\ alertMessage' \in {ParseAlert, InvalidAlert}
                             /\ validationError'.text # ""
           /\ trip' # trip => lastOp'.ok ]_vars

\* an upload has failed on a trip of two stops, and the alert shows
C13_Witness ==
  /\ lastOp.op = "upload" /\ ~lastOp.ok
  /\ Len(trip.locations) = 2
  /\ alertMessage = InvalidAlert
  /\ validationError.text = "coordinates"

\* every stop and every POI of the trip has valid, set coordinates
ValidAndSet(t) ==
  LET good(c) == /\ c # Dropped /\ c.lat # 0 /\ c.lng # 0
                 /\ c.lat >= -90 /\ c.lat <= 90 /\ c.lng >= -180 /\ c.lng <= 180
  IN  /\ \A k \in 1..Len(t.locations) :
           /\ good(t.locations[k].coordinates)
           /\ \A j \in 1..Len(t.locations[k].pointsOfInterest) :
                 good(t.locations[k].pointsOfInterest[j].coordinates)
      /\ \A k \in 1..Len(t.pointsOfInterest) : good(t.pointsOfInterest[k].coordinates)

\* C14: a trip whose coordinates are all valid and set, downloaded and
\* uploaded again, gives a trip equal to it, routes cache included.
C14_RoundTrip ==
  [][ (lastOp'.op = "upload" /\ lastOp'.kind = "download" /\ ValidAndSet(trip))
        => trip' = trip ]_vars

\* C15: the stops of the trip have pairwise distinct ids, also when two stops
\* were created at the same clock value.
C15_DistinctIds ==
  \A j, k \in 1..Len(trip.locations) :
     j # k => trip.locations[j].id # trip.locations[k].id

\* q is the suspended pass p, no further on
SamePass(p, q) ==
  /\ q.active /\ q.gen = p.gen /\ q.i = p.i /\ q.newRoutes = p.newRoutes
  /\ coordinatesData(q.trip.locations) = coordinatesData(p.trip.locations)
  /\ q.trip.routes = p.trip.routes

\* C16: at most one pass is in flight.  The flag is set whenever a pass is
\* suspended on a provider call, and a step taken while the flag is set, other
\* than the provider answering, leaves the flag set, the suspended pass where
\* it was and the drawn routes as they were: the calculateAllRoutes calls of
\* such a step start nothing.
C16_AtMostOnePass ==
  /\ [](pass.active <=> isCalculating)
  /\ [][ (isCalculating /\ lastOp'.op \notin {"answer", "passEnd"})
           => /\ isCalculating'
              /\ SamePass(pass, pass')
              /\ mapRoutes' = mapRoutes ]_vars

\* a stop was added while a pass was in flight: the routes are empty, so the
\* effect called calculateAllRoutes, and the pass is still the earlier one
C16_Witness ==
  /\ lastOp.op = "add" /\ mapInitialized /\ directionsService
  /\ trip.routes = <<>>
  /\ isCalculating /\ pass.active
  /\ Len(pass.trip.locations) >= 2
  /\ Len(pass.trip.locations) < Len(trip.locations)

\* C17: AddStop on a trip whose last stop arrives on D and carries
\* nightsStayed n appends a stop that arrives on D + n days.
C17_NewStopAfterNights ==
  [][ (/\ lastOp'.op = "add"
       /\ Len(trip.locations) > 0
       /\ trip.locations[Len(trip.locations)].nightsStayed # NoNights)
        => trip'.locations[Len(trip'.locations)].arrivalDate
             = addDays(trip.locations[Len(trip.locations)].arrivalDate,
                       trip.locations[Len(trip.locations)].nightsStayed) ]_vars

\* C18: the end of a route pass changes only the routes of the current trip:
\* locations, pointsOfInterest and totalDays stay those of the latest
\* mutation.
C18_PassEndChangesOnlyRoutes ==
  [][ lastOp'.op = "passEnd"
        => /\ trip'.locations = trip.locations
           /\ trip'.pointsOfInterest = trip.pointsOfInterest
           /\ trip'.totalDays = trip.totalDays ]_vars

\* a pass is suspended and the trip's stop coordinates are no longer those the
\* pass computes; the trip has a pair of placed stops to route
Superseded ==
  /\ pass.active
  /\ coordinatesChanged(trip.locations, coordinatesData(pass.trip.locations))
  /\ nextPair(trip.locations, 1) < Len(trip.locations)

PassOverCurrent ==
  /\ pass.active
  /\ ~coordinatesChanged(trip.locations, coordinatesData(pass.trip.locations))

\* C19: when the trip's stop coordinates change while a pass is in flight,
\* and the provider answers every call, a pass over the superseding stops is
\* eventually started.
C19_SupersedingSnapshotRecomputed == Superseded ~> PassOverCurrent

\* C20: a pass is not started when the routes are non-empty and the stop
\* coordinates are those recorded for the last computation, and the recorded
\* coordinates change only when a pass ends with a route, to the stops of
\* that pass.
C20_SkipAndRecord ==
  [][ /\ (~pass.active /\ pass'.active)
           => \/ pass'.trip.routes = <<>>
              \/ ~lastCalculated.set
              \/ coordinatesChanged(pass'.trip.locations, lastCalculated)
      /\ lastCalculated' # lastCalculated
           => /\ lastOp'.op = "passEnd" /\ lastOp'.ok
              /\ lastCalculated' = coordinatesData(pass.trip.locations) ]_vars

\* isSetCoordinate: present, finite, in range and not the point (0,0)
isSetCoordinate(c) ==
  /\ c.lat # NaN /\ c.lng # NaN
  /\ c.lat >= -90 /\ c.lat <= 90 /\ c.lng >= -180 /\ c.lng <= 180
  /\ ~(c.lat = 0 /\ c.lng = 0)

BothSet(locations, k) ==
  isSetCoordinate(locations[k].coordinates) /\ isSetCoordinate(locations[k + 1].coordinates)

\* C21: in a pass the provider is called for the pair (i, i+1) exactly when
\* both stops have set coordinates (a single zero component counts as set):
\* the pair the pass waits on has both set, the pairs it went past have not,
\* and a pass that the routes-cleared effect does not start had no such pair.
C21_CalledIffSet ==
  [][ /\ pass'.active => BothSet(pass'.trip.locations, pass'.i)
      /\ (~pass.active /\ pass'.active)
           => \A j \in 1..(pass'.i - 1) : ~BothSet(pass'.trip.locations, j)
      /\ (pass.active /\ pass'.active /\ pass'.i # pass.i)
           => \A j \in (pass.i + 1)..(pass'.i - 1) : ~BothSet(pass.trip.locations, j)
      /\ (pass.active /\ ~pass'.active)
           => \A j \in (pass.i + 1)..(Len(pass.trip.locations) - 1) :
                 ~BothSet(pass.trip.locations, j)
      /\ (lastOp'.op = "mapInit" /\ trip.routes = <<>> /\ ~pass'.active)
           => \A j \in 1..(Len(trip.locations) - 1) : ~BothSet(trip.locations, j) ]_vars

\* C22: a pass in which no pair yields a route writes nothing: the map's
\* displayed routes change only at the end of a pass that obtained at least
\* one route, and no other step of the map (provider load, map
\* initialisation, trip-change timer, provider answer, end of a pass without
\* a route, a call that skips every pair) changes the trip, i.e. no
\* onRoutesUpdate is issued
C22_EmptyPassWritesNothing ==
  [][ /\ mapRoutes' # mapRoutes => (lastOp'.op = "passEnd" /\ lastOp'.ok)
      /\ ( /\ lastOp'.op \in {"load", "mapInit", "timer", "answer", "passEnd"}
           /\ ~(lastOp'.op = "passEnd" /\ lastOp'.ok) )
         => (trip' = trip /\ mapRoutes' = mapRoutes) ]_vars

\* a pass ended without a route while the trip and the map both still hold
\* the routes of an earlier pass
C22_Witness ==
  /\ lastOp.op = "passEnd" /\ ~lastOp.ok
  /\ trip.routes # <<>> /\ mapRoutes # <<>>

\* C23: recalculateRoutes, called with at least two stops, the provider
\* available and no pass in flight, starts a pass over the current trip
\* whatever the last computed sequence and the routes cache are: the pass is
\* suspended on the provider call of its first routable pair, or, when the
\* trip has no routable pair, it has run to its end within the call (nothing
\* recorded when no stop has usable coordinates, the sequence recorded
\* otherwise)
C23_RecalculateStartsPass ==
  [][ ( /\ lastOp'.op = "recalculate"
        /\ Len(trip.locations) >= 2
        /\ directionsService
        /\ ~isCalculating )
      => IF \E j \in 1..(Len(trip.locations) - 1) : pairValid(trip.locations, j)
         THEN /\ pass'.active /\ isCalculating'
              /\ pass'.trip = trip /\ pass'.newRoutes = <<>>
              /\ pairValid(trip.locations, pass'.i)
         ELSE /\ ~pass'.active /\ ~isCalculating'
              /\ lastCalculated' = IF hasValidLocations(trip.locations)
                                   THEN coordinatesData(trip.locations)
                                   ELSE NoneCalculated ]_vars

\* recalculateRoutes was called on a trip whose routes were cached and whose
\* coordinate sequence was the last computed one, and a pass is in flight
C23_Witness ==
  /\ lastOp.op = "recalculate" /\ lastOp.kind = "identical" /\ lastOp.hadRoutes
  /\ pass.active /\ pass.trip = trip /\ trip.routes # <<>>

\* C24: while a pass is suspended on a provider call that has not returned,
\* no step other than the provider's answer starts a pass or moves the
\* suspended one (not a timer for a new trip snapshot, not recalculateRoutes,
\* not the effect that follows a mutation), and the stop mutations go on:
\* add, update, delete, reorder and import can each be taken, and when taken
\* produce their new trip
C24_HungCallBlocksOnlyPasses ==
  /\ [][ (pass.active /\ lastOp'.op \notin {"answer", "passEnd"})
         => /\ pass'.active /\ pass'.gen = pass.gen
            /\ pass'.i = pass.i /\ pass'.newRoutes = pass.newRoutes
            /\ SameStops(pass'.trip.locations, pass.trip.locations)
            /\ lastOp'.op = "add"
                 => /\ Len(trip'.locations) = Len(trip.locations) + 1
                    /\ SubSeq(trip'.locations, 1, Len(trip.locations)) = trip.locations
            /\ (lastOp'.op = "delete" /\ lastOp'.known)
                 => /\ Len(trip'.locations) < Len(trip.locations)
                    /\ stopIds(trip'.locations) \subseteq stopIds(trip.locations)
            /\ (lastOp'.op = "update" /\ lastOp'.known)
                 => /\ Len(trip'.locations) = Len(trip.locations)
                    /\ \A k \in 1..Len(trip.locations) :
                          trip'.locations[k].id = trip.locations[k].id
            /\ lastOp'.op = "reorder"
                 => /\ Len(trip'.locations) = Len(trip.locations)
                    /\ stopIds(trip'.locations) = stopIds(trip.locations)
            /\ (lastOp'.op = "upload" /\ lastOp'.ok)
                 => /\ generation' # pass.gen
                    /\ alertMessage' = alertMessage ]_vars
  /\ []( ( /\ pass.active
           /\ steps < MaxSteps
           /\ mapInitialized => Len(timers) < MaxTimers )
         => /\ Len(trip.locations) < MaxStops => ENABLED AddStop
            /\ Len(trip.locations) > 0 => ENABLED UpdateStop
            /\ Len(trip.locations) > 0 => ENABLED ReorderStops
            /\ ENABLED DeleteStop
            /\ ENABLED UploadTrip )

\* a trip was imported while a pass over an earlier trip was suspended, and
\* the pass is still suspended
C24_Witness ==
  /\ lastOp.op = "upload" /\ lastOp.ok
  /\ pass.active /\ pass.gen # generation
  /\ ~SameStops(pass.trip.locations, trip.locations)

\* the POIs of the stops of `locations` whose id is in S, in stop-list order
RECURSIVE PoisOfStops(_, _, _)
PoisOfStops(locations, S, k) ==
  IF k > Len(locations) THEN <<>>
  ELSE (IF locations[k].id \in S THEN locations[k].pointsOfInterest ELSE <<>>)
       \o PoisOfStops(locations, S, k + 1)

\* C25: after UpdateStop of an existing stop the flat list is the updated
\* stop's POIs in their own order followed by the POIs of every other stop in
\* stop-list order; after DeleteStop and ReorderStops it is the POIs of all
\* remaining stops in stop-list order.
C25_FlatListOrder ==
  [][ /\ (lastOp'.op = "update" /\ lastOp'.known)
         => \E k \in 1..Len(trip'.locations) :
               /\ trip'.locations[k].id = lastOp'.id
               /\ trip'.pointsOfInterest
                    = trip'.locations[k].pointsOfInterest
                      \o PoisOfStops(trip'.locations,
                                     stopIds(trip'.locations) \ {lastOp'.id}, 1)
      /\ lastOp'.op \in {"delete", "reorder"}
         => trip'.pointsOfInterest
              = PoisOfStops(trip'.locations, stopIds(trip'.locations), 1) ]_vars

\* a stop that is not the first was updated, it and an earlier stop have
\* POIs, and the flat list begins with the updated stop's
C25_Witness ==
  /\ lastOp.op = "update" /\ lastOp.known
  /\ Len(trip.locations) >= 2
  /\ trip.locations[1].id # lastOp.id
  /\ trip.locations[1].pointsOfInterest # <<>>
  /\ \E k \in 2..Len(trip.locations) :
        /\ trip.locations[k].id = lastOp.id
        /\ trip.locations[k].pointsOfInterest # <<>>
        /\ trip.pointsOfInterest[1] = trip.locations[k].pointsOfInterest[1]

\* what C26 allows a step to make of a POI held by the stop `owner`
KeptPoi(before, owner) ==
  [before EXCEPT !.locationId = IF before.locationId # Unset
                                THEN before.locationId ELSE owner]

\* stop `after` is stop `before` with nothing changed but the unset locationIds
KeptStop(before, after) ==
  after = [before EXCEPT !.pointsOfInterest =
             [j \in 1..Len(before.pointsOfInterest) |->
                KeptPoi(before.pointsOfInterest[j], before.id)]]

DistinctPoiIds(pois) == Cardinality(PoiIds(pois)) = Len(pois)

\* C26: UpdateStop, DeleteStop and ReorderStops leave the locationId of a POI
\* that has one as it is, and give a POI that has none the id of the stop
\* that holds it.  The stops a delete leaves and the stops an update does not
\* replace are compared in place, the stops of a reorder through the
\* permutation, and the POIs of the one stop an update replaces through their
\* ids (where those name them).
C26_LocationIdSetOnce ==
  [][ /\ lastOp'.op = "delete"
         => LET remaining == SelectSeq(trip.locations,
                                LAMBDA loc : loc.id \in stopIds(trip'.locations))
            IN  /\ Len(remaining) = Len(trip'.locations)
                /\ \A k \in 1..Len(remaining) : KeptStop(remaining[k], trip'.locations[k])
      /\ lastOp'.op = "reorder"
         => \E f \in [1..Len(trip.locations) -> 1..Len(trip.locations)] :
               /\ \A a, b \in 1..Len(trip.locations) : f[a] = f[b] => a = b
               /\ Len(trip'.locations) = Len(trip.locations)
               /\ \A k \in 1..Len(trip.locations) :
                     KeptStop(trip.locations[f[k]], trip'.locations[k])
      /\ (lastOp'.op = "update" /\ lastOp'.known)
         => \A k \in 1..Len(trip.locations) :
               IF trip.locations[k].id # lastOp'.id
               THEN KeptStop(trip.locations[k], trip'.locations[k])
               ELSE LET old == trip.locations[k].pointsOfInterest
                        new == trip'.locations[k].pointsOfInterest
                    IN  /\ \A j \in 1..Len(new) : new[j].locationId # Unset
                        /\ ( /\ \A k2 \in 1..Len(trip.locations) :
                                   trip.locations[k2].id = lastOp'.id => k2 = k
                             /\ DistinctPoiIds(old) /\ DistinctPoiIds(new) )
                           => \A j \in 1..Len(new), i \in 1..Len(old) :
                                 new[j].id = old[i].id
                                 => new[j].locationId
                                      = KeptPoi(old[i], lastOp'.id).locationId ]_vars

\* after a reorder, a stop holds a POI whose locationId is set and is not the
\* stop's own id
C26_Witness ==
  /\ lastOp.op = "reorder"
  /\ \E k \in 1..Len(trip.locations) :
        \E j \in 1..Len(trip.locations[k].pointsOfInterest) :
           /\ trip.locations[k].pointsOfInterest[j].locationId # Unset
           /\ trip.locations[k].pointsOfInterest[j].locationId # trip.locations[k].id

\* the calendar day a date falls on
CalendarDay(date) == date \div DayUnits

RECURSIVE SumOfCalendarDifferences(_, _)
SumOfCalendarDifferences(locations, n) ==
  IF n < 1 THEN 0
  ELSE SumOfCalendarDifferences(locations, n - 1)
       + (CalendarDay(locations[n + 1].arrivalDate) - CalendarDay(locations[n].arrivalDate))

\* C27: the nights between consecutive stops are the calendar-day difference
\* of their arrival dates whatever the time of day, negative when the later
\* stop has the earlier date, and totalDays is their unclamped sum.
C27_CalendarDayNights ==
  lastOp.op \in {"update", "delete", "reorder"}
    => trip.totalDays = SumOfCalendarDifferences(trip.locations, Len(trip.locations) - 1)

\* coordinates that are present and, once a string is read as a number, are
\* not a number or lie outside [-90, 90] x [-180, 180]
BadCoordinates(c) ==
  /\ c.present
  /\ c.lat.t \in {"string", "number"} /\ c.lng.t \in {"string", "number"}
  /\ \/ c.lat.n = NaN \/ c.lng.n = NaN
     \/ c.lat.n < -90 \/ c.lat.n > 90
     \/ c.lng.n < -180 \/ c.lng.n > 180

StopIsValid(location) ==
  /\ location.id.t = "string"
  /\ location.name.t = "string"
  /\ location.coordinates.present
  /\ location.coordinates.lat.t = "number"
  /\ location.coordinates.lng.t = "number"
  /\ location.arrivalDate.t = "Date" /\ location.arrivalDate.n # NaN
  /\ location.pointsOfInterest.isArray

\* C29: validation accepts the normalised document of an import only if its
\* name is a string, its locations are an array and every stop has a string
\* id and name, an object coordinates with numeric lat and lng, an
\* arrivalDate that is a date, and an array pointsOfInterest; when a stop
\* fails, the message names the lowest index of a failing stop.
C29_ValidateStructure ==
  [][ lastOp'.op = "upload" =>
      \A content \in Files \cup MalformedFiles \cup {handleDownloadTrip} :
        (content.json = "object" /\ handleFileUpload(content))
        => LET uploadedTrip == deserializeTripData(content.data)
               failing == IF uploadedTrip.locationsIsArray
                          THEN { k \in 1..Len(uploadedTrip.locations) :
                                   ~StopIsValid(uploadedTrip.locations[k]) }
                          ELSE {}
           IN  /\ lastOp'.ok
                    => /\ uploadedTrip.name.t = "string"
                       /\ uploadedTrip.locationsIsArray
                       /\ failing = {}
               /\ ~lastOp'.ok
                    => /\ alertMessage' = InvalidAlert
                       /\ ( /\ uploadedTrip.name.t = "string"
                            /\ uploadedTrip.locationsIsArray )
                          => /\ failing # {}
                             /\ validationError'.index + 1 = Min(failing) ]_vars

\* sequence s without its k-th element
Without(s, k) == SubSeq(s, 1, k - 1) \o SubSeq(s, k + 1, Len(s))

\* C30: a drop of the stop at index `source` on index `destination` gives a
\* stop list of the same length in which that stop is at `destination` and
\* the other stops follow in their previous order, so that no stop is lost or
\* duplicated; a drop outside the list leaves the trip as it was.
C30_ReorderIsMove ==
  [][ /\ lastOp'.op = "reorder"
         => \A source, destination \in 1..Len(trip.locations) :
               handleDragEnd(source, destination)
               => /\ Len(trip'.locations) = Len(trip.locations)
                  /\ KeptStop(trip.locations[source], trip'.locations[destination])
                  /\ LET others == Without(trip.locations, source)
                         othersAfter == Without(trip'.locations, destination)
                     IN  \A k \in 1..Len(others) : KeptStop(others[k], othersAfter[k])
      /\ lastOp'.op = "drop" => trip' = trip ]_vars

\* three stops with distinct ids were reordered, and the stop created last
\* is no longer the last
C30_Witness ==
  /\ lastOp.op = "reorder"
  /\ Len(trip.locations) = 3
  /\ Cardinality(stopIds(trip.locations)) = 3
  /\ \E k \in 1..2 : \A j \in 1..3 : trip.locations[j].id <= trip.locations[k].id

\* ---------------------------------------------------------------- specification
Next ==
  \/ AddStop
  \/ UpdateStop
  \/ UpdateStaleStop
  \/ DeleteStop
  \/ ReorderStops
  \/ DropOutside
  \/ UploadTrip
  \/ UploadDownloaded
  \/ handleCloseAlert
  \/ onLoad
  \/ mapInitTimer
  \/ tripChangeTimer
  \/ ProviderAnswer
  \/ recalculateRoutes

Spec == Init /\ [][Next]_vars

\* the stop list is edited in a session that began with a saved trip
NextSaved ==
  \/ AddStop
  \/ DeleteStop

SpecSaved == InitSaved /\ [][NextSaved]_vars

\* the map works on a saved trip
NextMap ==
  \/ onLoad
  \/ mapInitTimer
  \/ tripChangeTimer
  \/ ProviderAnswer

SpecMap == InitMap /\ [][NextMap]_vars

\* files are imported, and stops added, before the map has loaded
NextImport ==
  \/ AddStop
  \/ UploadTrip
  \/ UploadMalformed
  \/ UploadDownloaded
  \/ handleCloseAlert

SpecImport == Init /\ [][NextImport]_vars

\* the map loads, armed timers fire and the RouteProvider answers every call
SpecLive ==
  /\ Init /\ [][Next]_vars
  /\ WF_vars(onLoad) /\ WF_vars(mapInitTimer) /\ WF_vars(tripChangeTimer)
  /\ WF_vars(ProviderAnswer)

====
